---- MODULE Spec2Model ----
(***************************************************************************)
(* A model of the quote-generator backend: the Express route handlers of   *)
(* src/server.js (latest revision, lines 122-375, and the first revision's *)
(* /protected route), the /api/users route of src/unnamed/part_000, and    *)
(* the Mongoose schemas of src/mongoSchemas.js.                            *)
(*                                                                         *)
(* A handler runs atomically between two awaits (Node's event loop), so    *)
(* every action is either the arrival of a request (the middleware and the *)
(* handler up to its first await) or the completion of one awaited call    *)
(* (the storage or generation call itself and the handler code after it).  *)
(***************************************************************************)
EXTENDS Integers, Sequences, FiniteSets, TLC

VARIABLES
  users,      \* the User collection: a set of documents [id, email, password]
  quoteDocs,  \* the Quote collection in natural (insertion) order
  now,        \* the clock, in ticks
  oid,        \* the ObjectId counter of the process
  issued,     \* the tokens clients hold (every token a response carried)
  reqs        \* the requests received so far, each with its handler's locals

vars == <<users, quoteDocs, now, oid, issued, reqs>>

----------------------------------------------------------------------------
(* Bounds of the model *)

MaxReqs == 3
MaxQuoteReqs == 2
MaxSeqReqs == 3
MaxClockReqs == 3
MaxLiveReqs == 2
MaxTime == 3

(* Program constants. The clock ticks every half hour: expiresIn: '1h'. *)

ExpiresIn == 2
SaltRounds == 10

JWT_SECRET == "JWT_SECRET"

Emails == {"a@x.com", "b@x.com"}
Passwords == {"p1", "p2"}
Salts == {"saltA", "saltB"}
QuoteVals == {[category |-> "fun", text |-> "Q1"], [category |-> "fun", text |-> "Q2"]}
Categories == {"", "fun"}

----------------------------------------------------------------------------
(* bcrypt *)

\* A string stored as it was given (no hashing).
Raw(s) == [alg |-> "none", cost |-> 0, salt |-> "", digest |-> s]

\* bcrypt.hash(password, 10): a salted one-way hash; the digest stands for the
\* plaintext it was computed from and is read only by bcryptCompare.
bcryptHash(password, rounds, salt) ==
  [alg |-> "2b", cost |-> rounds, salt |-> salt, digest |-> password]

\* (mutant) a compare that accepts any bcrypt hash.
bcryptCompareAny(password, stored) == stored.alg = "2b"

\* bcrypt.compare(password, stored): false for anything that is no bcrypt hash.
bcryptCompare(password, stored) ==
  stored.alg = "2b" /\ stored.digest = password

----------------------------------------------------------------------------
(* jsonwebtoken *)

NoToken == [userId |-> 0, iat |-> 0, exp |-> 0, key |-> "none"]

\* jwt.sign({ userId }, secret, { expiresIn: '1h' }) at time t.
jwtSign(userId, secret, t) ==
  [userId |-> userId, iat |-> t, exp |-> t + ExpiresIn, key |-> secret]

\* (mutant) a verify that checks the signature alone.
jwtVerifyErrNoExpiry(token, secret, t) ==
  IF token.key # secret THEN "invalid signature" ELSE "none"

\* jwt.verify(token, secret, callback) at time t: the err handed to the callback.
jwtVerifyErr(token, secret, t) ==
  IF token.key # secret THEN "invalid signature"
  ELSE IF t >= token.exp THEN "jwt expired"
  ELSE "none"

\* A token signed with another key.
Forged(userId, t) == jwtSign(userId, "attacker", t)

----------------------------------------------------------------------------
(* The Authorization header, as authHeader.split(' ') sees it: a sequence of  *)
(* parts; the parts are tokens or the word Bearer.                            *)

NoHeader == <<>>
BearerWord == [userId |-> 0, iat |-> 0, exp |-> 0, key |-> "Bearer"]
Bearer(token) == <<BearerWord, token>>
BearerOnly == <<BearerWord>>
RawHeader(token) == <<token>>

AuthOk(userId) == [status |-> 0, message |-> "", userId |-> userId]
AuthFail(status, message) == [status |-> status, message |-> message, userId |-> 0]

\* (mutant) a middleware that goes on to the handler without verifying.
authenticateTokenUnverified(hdr, t) ==
  IF hdr = NoHeader THEN AuthFail(401, "No token provided")
  ELSE IF Len(hdr) < 2 THEN AuthFail(401, "Token missing or malformed")
  ELSE AuthOk(hdr[2].userId)

\* authenticateToken, latest revision: status 0 stands for next().
authenticateToken(hdr, t) ==
  IF hdr = NoHeader THEN AuthFail(401, "No token provided")
  ELSE IF Len(hdr) < 2 THEN AuthFail(401, "Token missing or malformed")
  ELSE IF jwtVerifyErr(hdr[2], JWT_SECRET, t) # "none" THEN AuthFail(403, "Invalid token")
  ELSE AuthOk(hdr[2].userId)

\* authenticateToken, first revision: the whole header is the token.
authenticateTokenV1(hdr, t) ==
  IF hdr = NoHeader THEN AuthFail(401, "No token provided")
  ELSE IF Len(hdr) # 1 \/ hdr[1] = BearerWord THEN AuthFail(403, "Invalid token")
  ELSE IF jwtVerifyErr(hdr[1], JWT_SECRET, t) # "none" THEN AuthFail(403, "Invalid token")
  ELSE AuthOk(hdr[1].userId)

----------------------------------------------------------------------------
(* Requests and responses *)

NoQuote == [defined |-> FALSE, category |-> "", text |-> ""]
NoBody ==
  [email |-> "", password |-> "", userID |-> 0, isArray |-> FALSE, quotes |-> <<>>,
   quoteToDelete |-> NoQuote, category |-> ""]
NoRes ==
  [message |-> "", error |-> "", token |-> NoToken, userId |-> 0, quotes |-> <<>>, quote |-> ""]

Guarded(route) == route \in {"aiquote", "postq", "getq", "delq", "protected"}

\* A request as it arrives: nothing answered, no call made.
NewReq(route, hdr, body) ==
  [route |-> route, hdr |-> hdr, body |-> body, at |-> IF Guarded(route) THEN now ELSE 0, pc |-> "new",
   userId |-> 0, status |-> 0, sent |-> 0, res |-> NoRes, err |-> "none", ops |-> 0]

\* res.status(status).json(res): one response sent; the handler returns.
Respond(r, status, res) ==
  [r EXCEPT !.status = status, !.res = res, !.sent = r.sent + 1, !.pc = "done"]

\* The handler awaits a storage or generation call.
Await(r, pc) == [r EXCEPT !.pc = pc, !.ops = r.ops + 1]

Msg(message) == [NoRes EXCEPT !.message = message]
MsgErr(message, error) == [NoRes EXCEPT !.message = message, !.error = error]

\* The outcome of an awaited call: it resolves, or it rejects.
Outcomes == {"ok", "rejected"}

----------------------------------------------------------------------------
(* The User collection *)

\* (mutant) email without the unique index.
DuplicateKeyNoIndex(email) == FALSE

\* userSchema's email is unique: the index rejects a second document (E11000).
DuplicateKey(email) == \E u \in users : u.email = email

\* User.findOne({ email }): the document, or none.
FindUser(email) == {u \in users : u.email = email}

Init ==
  /\ users = {}
  /\ quoteDocs = <<>>
  /\ now = 0
  /\ oid = 1
  /\ issued = {}
  /\ reqs = <<>>

Tick ==
  /\ now < MaxTime
  /\ now' = now + 1
  /\ UNCHANGED <<users, quoteDocs, oid, issued, reqs>>

\* POST /signup arrives: the handler runs up to await User.findOne.
ArriveSignup(cap, emails, passwords) ==
  /\ Len(reqs) < cap
  /\ \E email \in emails, password \in passwords :
       reqs' = Append(reqs, Await(NewReq("signup", NoHeader,
                 [NoBody EXCEPT !.email = email, !.password = password]), "findOne"))
  /\ UNCHANGED <<users, quoteDocs, now, oid, issued>>

\* User.findOne resolves; an existing user is answered 400.
SignupFindOne(i) ==
  /\ reqs[i].route = "signup" /\ reqs[i].pc = "findOne"
  /\ \E out \in Outcomes :
       LET r == reqs[i] IN
       reqs' = [reqs EXCEPT ![i] =
         IF out = "rejected"
           THEN Respond([r EXCEPT !.err = "DbError"], 500, MsgErr("Error creating user", "DbError"))
         ELSE IF FindUser(r.body.email) # {}
           THEN Respond(r, 400, Msg("Email already in use"))
         ELSE Await(r, "save")]
  /\ UNCHANGED <<users, quoteDocs, now, oid, issued>>

\* bcrypt.hash, new User and user.save resolve; the token is signed and sent.
SignupSave(i) ==
  /\ reqs[i].route = "signup" /\ reqs[i].pc = "save"
  /\ \E out \in Outcomes, salt \in Salts :
       LET r == reqs[i]
           user == [id |-> oid, email |-> r.body.email,
                    password |-> bcryptHash(r.body.password, SaltRounds, salt)]
           token == jwtSign(user.id, JWT_SECRET, now)
       IN
       IF out = "rejected" THEN
         /\ reqs' = [reqs EXCEPT ![i] =
              Respond([r EXCEPT !.err = "Error"], 500, MsgErr("Error creating user", "Error"))]
         /\ UNCHANGED <<users, oid, issued>>
       ELSE IF DuplicateKey(user.email) THEN
         /\ reqs' = [reqs EXCEPT ![i] =
              Respond([r EXCEPT !.err = "E11000"], 400, Msg("Email already in use"))]
         /\ oid' = oid + 1
         /\ UNCHANGED <<users, issued>>
       ELSE
         /\ users' = users \cup {user}
         /\ oid' = oid + 1
         /\ issued' = issued \cup {token}
         /\ reqs' = [reqs EXCEPT ![i] =
              Respond(r, 201, [NoRes EXCEPT !.token = token, !.userId = user.id])]
  /\ UNCHANGED <<quoteDocs, now>>

\* POST /login arrives: the handler runs up to await User.findOne.
ArriveLogin(cap, emails, passwords) ==
  /\ Len(reqs) < cap
  /\ \E email \in emails, password \in passwords :
       reqs' = Append(reqs, Await(NewReq("login", NoHeader,
                 [NoBody EXCEPT !.email = email, !.password = password]), "findOne"))
  /\ UNCHANGED <<users, quoteDocs, now, oid, issued>>

\* User.findOne and bcrypt.compare resolve; the token is signed and sent.
LoginFindOne(i) ==
  /\ reqs[i].route = "login" /\ reqs[i].pc = "findOne"
  /\ \E out \in Outcomes :
       LET r == reqs[i]
           found == FindUser(r.body.email)
           user == CHOOSE u \in found : TRUE
           token == jwtSign(user.id, JWT_SECRET, now)
       IN
       IF out = "rejected" THEN
         /\ reqs' = [reqs EXCEPT ![i] =
              Respond([r EXCEPT !.err = "DbError"], 500, MsgErr("Error logging in", "DbError"))]
         /\ UNCHANGED issued
       ELSE IF found = {} THEN
         /\ reqs' = [reqs EXCEPT ![i] = Respond(r, 401, Msg("Invalid credentials"))]
         /\ UNCHANGED issued
       ELSE IF ~bcryptCompare(r.body.password, user.password) THEN
         /\ reqs' = [reqs EXCEPT ![i] = Respond(r, 401, Msg("Invalid password"))]
         /\ UNCHANGED issued
       ELSE
         /\ issued' = issued \cup {token}
         /\ reqs' = [reqs EXCEPT ![i] =
              Respond(r, 200, [NoRes EXCEPT !.token = token, !.userId = user.id])]
  /\ UNCHANGED <<users, quoteDocs, now, oid>>

\* POST /api/users arrives: the handler runs up to await User.create.
ArriveApiUsers(cap, emails, passwords) ==
  /\ Len(reqs) < cap
  /\ \E email \in emails, password \in passwords :
       reqs' = Append(reqs, Await(NewReq("apiusers", NoHeader,
                 [NoBody EXCEPT !.email = email, !.password = password]), "create"))
  /\ UNCHANGED <<users, quoteDocs, now, oid, issued>>

\* User.create({ email, password }) resolves: the password is stored as given.
ApiUsersCreate(i) ==
  /\ reqs[i].route = "apiusers" /\ reqs[i].pc = "create"
  /\ \E out \in Outcomes :
       LET r == reqs[i]
           user == [id |-> oid, email |-> r.body.email, password |-> Raw(r.body.password)]
       IN
       IF out = "rejected" \/ DuplicateKey(user.email) THEN
         /\ reqs' = [reqs EXCEPT ![i] =
              Respond([r EXCEPT !.err = IF out = "rejected" THEN "DbError" ELSE "E11000"],
                      500, MsgErr("", "Failed to create user"))]
         /\ UNCHANGED <<users, oid>>
       ELSE
         /\ users' = users \cup {user}
         /\ oid' = oid + 1
         /\ reqs' = [reqs EXCEPT ![i] = Respond(r, 201, [NoRes EXCEPT !.userId = user.id])]
  /\ UNCHANGED <<quoteDocs, now, issued>>

----------------------------------------------------------------------------
(* The Quote collection: documents [userID, quotes, updatedAt], updatedAt  *)
(* -1 while the document has no such field. An entry of quotes is its      *)
(* category and text (the _id Mongoose adds to a stored entry is left out).*)
(* Filters are not cast against the schema (strictQuery is off, Mongoose's *)
(* default from version 7 on); updates are (strict mode).                  *)

\* The paths quoteSchema declares.
QuoteSchemaPaths == {"_id", "quotes", "createdAt"}

\* Mongoose casts an update against the schema (strict mode): a $set of a path
\* the schema does not declare is dropped.
castSet(paths) == paths \cap QuoteSchemaPaths

\* The filter { userID } is no path of quoteSchema and reaches the database as
\* it is: the documents whose userID field equals it, in natural order.
Matching(userID) == {k \in 1..Len(quoteDocs) : quoteDocs[k].userID = userID}

Min(S) == CHOOSE k \in S : \A m \in S : k <= m

\* Quote.find({ userID: req.userId }) and quoteDoc[0].quotes of GET /quotes.
ListQuotes(userId) ==
  IF Matching(userId) = {} THEN <<>> ELSE quoteDocs[Min(Matching(userId))].quotes

\* $set: { updatedAt: new Date() } after the cast.
ApplySet(doc, paths, t) ==
  IF "updatedAt" \in castSet(paths) THEN [doc EXCEPT !.updatedAt = t] ELSE doc

\* (mutant) a $set of quotes in place of the $push.
PushOverwrite(doc, quotes) == [doc EXCEPT !.quotes = quotes]

\* $push: { quotes: { $each: quotes } }.
Push(doc, quotes) == [doc EXCEPT !.quotes = doc.quotes \o quotes]

\* $pull: { quotes: { category, text } }: every entry equal in both fields goes.
IsTarget(q, target) == q.category = target.category /\ q.text = target.text
Pull(doc, target) ==
  [doc EXCEPT !.quotes = SelectSeq(doc.quotes, LAMBDA q : ~IsTarget(q, target))]

\* The document an upsert inserts: the filter's field and the update applied.
Upserted(userID, quotes, t) ==
  ApplySet(Push([userID |-> userID, quotes |-> <<>>, updatedAt |-> -1], quotes),
           {"updatedAt"}, t)

\* What clients send as body.quotes when it is an array.
QuoteArrays == UNION {[1..n -> QuoteVals] : n \in 0..2}

UserIds == {u.id : u \in users}

\* The headers clients send: none, the scheme alone, a token they hold, a
\* token signed with another key.
ValidHeaders == {Bearer(tk) : tk \in issued}
BadHeaders == {NoHeader, BearerOnly, Bearer(Forged(1, now))}

\* The middleware of a guarded route, then the handler body up to its first
\* await (body: the request with req.userId set) or the middleware's answer.
Enter(route, hdr, body, handler(_)) ==
  LET r == NewReq(route, hdr, body)
      a == authenticateToken(hdr, now)
  IN IF a.status # 0 THEN Respond(r, a.status, Msg(a.message))
     ELSE handler([r EXCEPT !.userId = a.userId])

\* POST /quotes arrives.
PostQuotesHandler(r) ==
  IF ~r.body.isArray THEN Respond(r, 400, Msg("Quotes must be an array"))
  ELSE Await(r, "updateOne")

ArrivePostQuotes(cap, hdrs, userIDs, arrays) ==
  /\ Len(reqs) < cap
  /\ \E hdr \in hdrs, userID \in userIDs, isArray \in BOOLEAN :
     \E quotes \in IF isArray THEN arrays ELSE {<<>>} :
       reqs' = Append(reqs, Enter("postq", hdr,
                 [NoBody EXCEPT !.userID = userID, !.isArray = isArray, !.quotes = quotes],
                 PostQuotesHandler))
  /\ UNCHANGED <<users, quoteDocs, now, oid, issued>>

\* Quote.updateOne(..., { upsert: true }) looks for a document: it updates the
\* first it finds in one atomic step, and goes on to insert when it finds none.
PostQuotesUpdate(i) ==
  /\ reqs[i].route = "postq" /\ reqs[i].pc = "updateOne"
  /\ \E out \in Outcomes :
       LET r == reqs[i]
           m == Matching(r.body.userID)
           k == Min(m)
       IN
       IF out = "rejected" THEN
         /\ reqs' = [reqs EXCEPT ![i] =
              Respond([r EXCEPT !.err = "DbError"], 500, MsgErr("Error saving quotes", "DbError"))]
         /\ UNCHANGED quoteDocs
       ELSE IF m = {} THEN
         /\ reqs' = [reqs EXCEPT ![i].pc = "upsert"]
         /\ UNCHANGED quoteDocs
       ELSE
         /\ quoteDocs' = [quoteDocs EXCEPT ![k] =
              ApplySet(Push(quoteDocs[k], r.body.quotes), {"updatedAt"}, now)]
         /\ reqs' = [reqs EXCEPT ![i] =
              Respond(r, 200, [Msg("Quotes saved successfully") EXCEPT !.quotes = r.body.quotes])]
  /\ UNCHANGED <<users, now, oid, issued>>

\* The upsert inserts its document: no index of quoteSchema stands in the way
\* of a second document with the same userID.
PostQuotesUpsert(i) ==
  /\ reqs[i].route = "postq" /\ reqs[i].pc = "upsert"
  /\ LET r == reqs[i] IN
       /\ quoteDocs' = Append(quoteDocs, Upserted(r.body.userID, r.body.quotes, now))
       /\ reqs' = [reqs EXCEPT ![i] =
            Respond(r, 200, [Msg("Quotes saved successfully") EXCEPT !.quotes = r.body.quotes])]
  /\ UNCHANGED <<users, now, oid, issued>>

\* GET /quotes arrives.
GetQuotesHandler(r) == Await(r, "find")

ArriveGetQuotes(cap, hdrs) ==
  /\ Len(reqs) < cap
  /\ \E hdr \in hdrs :
       reqs' = Append(reqs, Enter("getq", hdr, NoBody, GetQuotesHandler))
  /\ UNCHANGED <<users, quoteDocs, now, oid, issued>>

\* Quote.find({ userID: req.userId }) resolves.
GetQuotesFind(i) ==
  /\ reqs[i].route = "getq" /\ reqs[i].pc = "find"
  /\ \E out \in Outcomes :
       LET r == reqs[i] IN
       reqs' = [reqs EXCEPT ![i] =
         IF out = "rejected"
           THEN Respond([r EXCEPT !.err = "DbError"], 500, MsgErr("Error getting quotes", "DbError"))
         ELSE Respond(r, 200, [NoRes EXCEPT !.quotes = ListQuotes(r.userId)])]
  /\ UNCHANGED <<users, quoteDocs, now, oid, issued>>

\* (mutant) reading quoteToDelete.category outside the try: nothing answers.
DeleteQuotesHandlerNoTry(r) ==
  IF ~r.body.quoteToDelete.defined
    THEN [r EXCEPT !.err = "TypeError", !.pc = "thrown"]
  ELSE Await(r, "updateOne")

\* DELETE /quotes arrives: reading quoteToDelete.category of a body without
\* quoteToDelete throws inside the try.
DeleteQuotesHandler(r) ==
  IF ~r.body.quoteToDelete.defined
    THEN Respond([r EXCEPT !.err = "TypeError"], 500, MsgErr("Error deleting quote", "TypeError"))
  ELSE Await(r, "updateOne")

DeleteTargets == {[defined |-> TRUE, category |-> q.category, text |-> q.text] : q \in QuoteVals}

ArriveDeleteQuotes(cap, hdrs, userIDs, targets) ==
  /\ Len(reqs) < cap
  /\ \E hdr \in hdrs, userID \in userIDs, target \in targets :
       reqs' = Append(reqs, Enter("delq", hdr,
                 [NoBody EXCEPT !.userID = userID, !.quoteToDelete = target],
                 DeleteQuotesHandler))
  /\ UNCHANGED <<users, quoteDocs, now, oid, issued>>

\* (mutant) matchedCount read in place of modifiedCount.
matchedCount(matched, doc, updated) == IF matched THEN 1 ELSE 0

\* result.modifiedCount of an updateOne that matched `matched` documents and
\* made `doc` of the first into `updated`.
modifiedCount(matched, doc, updated) == IF matched /\ updated # doc THEN 1 ELSE 0

\* Quote.updateOne (no upsert) resolves; the handler answers by modifiedCount.
DeleteQuotesUpdate(i) ==
  /\ reqs[i].route = "delq" /\ reqs[i].pc = "updateOne"
  /\ \E out \in Outcomes :
       LET r == reqs[i]
           m == Matching(r.body.userID)
           k == Min(m)
           old == IF m = {} THEN Upserted(r.body.userID, <<>>, now) ELSE quoteDocs[k]
           doc == ApplySet(Pull(old, r.body.quoteToDelete), {"updatedAt"}, now)
       IN
       IF out = "rejected" THEN
         /\ reqs' = [reqs EXCEPT ![i] =
              Respond([r EXCEPT !.err = "DbError"], 500, MsgErr("Error deleting quote", "DbError"))]
         /\ UNCHANGED quoteDocs
       ELSE IF modifiedCount(m # {}, old, doc) = 0 THEN
         /\ reqs' = [reqs EXCEPT ![i] = Respond(r, 404, Msg("Quote not found"))]
         /\ UNCHANGED quoteDocs
       ELSE
         /\ quoteDocs' = [quoteDocs EXCEPT ![k] = doc]
         /\ reqs' = [reqs EXCEPT ![i] = Respond(r, 200, Msg("Quote deleted successfully"))]
  /\ UNCHANGED <<users, now, oid, issued>>

\* POST /ai/quote arrives.
AiQuoteHandler(r) ==
  IF r.body.category = "" THEN Respond(r, 400, Msg("Category is required"))
  ELSE Await(r, "create")

ArriveAiQuote(cap, hdrs) ==
  /\ Len(reqs) < cap
  /\ \E hdr \in hdrs, category \in Categories :
       reqs' = Append(reqs, Enter("aiquote", hdr, [NoBody EXCEPT !.category = category],
                 AiQuoteHandler))
  /\ UNCHANGED <<users, quoteDocs, now, oid, issued>>

\* openaiClient.chat.completions.create resolves with a text, or rejects.
AiQuoteCreate(i) ==
  /\ reqs[i].route = "aiquote" /\ reqs[i].pc = "create"
  /\ \E out \in Outcomes :
       LET r == reqs[i] IN
       reqs' = [reqs EXCEPT ![i] =
         IF out = "rejected"
           THEN Respond([r EXCEPT !.err = "ApiError"], 500, MsgErr("Error generating quote", "ApiError"))
         ELSE Respond(r, 200, [NoRes EXCEPT !.quote = "quote about " \o r.body.category])]
  /\ UNCHANGED <<users, quoteDocs, now, oid, issued>>

\* GET /protected arrives (first revision): the middleware, then the handler,
\* which awaits nothing.
ArriveProtected(cap, hdrs) ==
  /\ Len(reqs) < cap
  /\ \E hdr \in hdrs :
       LET r == NewReq("protected", hdr, NoBody)
           a == authenticateTokenV1(hdr, now)
       IN reqs' = Append(reqs,
            IF a.status # 0 THEN Respond(r, a.status, Msg(a.message))
            ELSE Respond([r EXCEPT !.userId = a.userId], 200,
                         [Msg("Access granted") EXCEPT !.userId = a.userId]))
  /\ UNCHANGED <<users, quoteDocs, now, oid, issued>>

----------------------------------------------------------------------------
(* Specifications *)

\* A database that already holds two users, whose clients hold their tokens.
SeedUsers ==
  {[id |-> 1, email |-> "a@x.com", password |-> bcryptHash("p1", SaltRounds, "saltA")],
   [id |-> 2, email |-> "b@x.com", password |-> bcryptHash("p2", SaltRounds, "saltB")]}

InitQ ==
  /\ users = SeedUsers
  /\ quoteDocs = <<>>
  /\ now = 0
  /\ oid = 3
  /\ issued = {jwtSign(u.id, JWT_SECRET, 0) : u \in SeedUsers}
  /\ reqs = <<>>

\* Signup and login on an empty database.
Next ==
  \/ ArriveSignup(MaxReqs, Emails, Passwords)
  \/ ArriveLogin(MaxReqs, Emails, Passwords)
  \/ \E i \in 1..Len(reqs) : SignupFindOne(i)
  \/ \E i \in 1..Len(reqs) : SignupSave(i)
  \/ \E i \in 1..Len(reqs) : LoginFindOne(i)

Spec == Init /\ [][Next]_vars

\* The first revision's /api/users beside the latest /signup.
NextLegacy ==
  \/ ArriveApiUsers(MaxReqs, Emails, Passwords)
  \/ ArriveSignup(MaxReqs, Emails, Passwords)
  \/ \E i \in 1..Len(reqs) : ApiUsersCreate(i)
  \/ \E i \in 1..Len(reqs) : SignupFindOne(i)
  \/ \E i \in 1..Len(reqs) : SignupSave(i)

LegacySpec == Init /\ [][NextLegacy]_vars

\* Concurrent requests on the quote collection by clients holding valid tokens.
NextQuotes ==
  \/ ArrivePostQuotes(MaxQuoteReqs, ValidHeaders, UserIds, QuoteArrays)
  \/ ArriveGetQuotes(MaxQuoteReqs, ValidHeaders)
  \/ ArriveDeleteQuotes(MaxQuoteReqs, ValidHeaders, UserIds, DeleteTargets)
  \/ \E i \in 1..Len(reqs) : PostQuotesUpdate(i)
  \/ \E i \in 1..Len(reqs) : PostQuotesUpsert(i)
  \/ \E i \in 1..Len(reqs) : GetQuotesFind(i)
  \/ \E i \in 1..Len(reqs) : DeleteQuotesUpdate(i)

QuoteSpec == InitQ /\ [][NextQuotes]_vars

\* The same requests by clients that send one request at a time.
Idle == \A i \in 1..Len(reqs) : reqs[i].pc = "done"

SeqArrays ==
  {<<>>, <<[category |-> "fun", text |-> "Q1"]>>,
   <<[category |-> "fun", text |-> "Q2"], [category |-> "fun", text |-> "Q1"]>>}

NextSeq ==
  \/ Idle /\ ArrivePostQuotes(MaxSeqReqs, ValidHeaders, UserIds, SeqArrays)
  \/ Idle /\ ArriveGetQuotes(MaxSeqReqs, ValidHeaders)
  \/ Idle /\ ArriveDeleteQuotes(MaxSeqReqs, ValidHeaders, UserIds, DeleteTargets)
  \/ \E i \in 1..Len(reqs) : PostQuotesUpdate(i)
  \/ \E i \in 1..Len(reqs) : PostQuotesUpsert(i)
  \/ \E i \in 1..Len(reqs) : GetQuotesFind(i)
  \/ \E i \in 1..Len(reqs) : DeleteQuotesUpdate(i)

SeqSpec == InitQ /\ [][NextSeq]_vars

\* Tokens issued by signup and login, presented while the clock runs.
AllHeaders == ValidHeaders \cup BadHeaders

NextClock ==
  \/ Tick
  \/ ArriveSignup(MaxClockReqs, {"a@x.com"}, {"p1"})
  \/ ArriveLogin(MaxClockReqs, {"a@x.com"}, {"p1"})
  \/ ArriveGetQuotes(MaxClockReqs, AllHeaders)
  \/ \E i \in 1..Len(reqs) : SignupFindOne(i)
  \/ \E i \in 1..Len(reqs) : SignupSave(i)
  \/ \E i \in 1..Len(reqs) : LoginFindOne(i)
  \/ \E i \in 1..Len(reqs) : GetQuotesFind(i)

ClockSpec == Init /\ [][NextClock]_vars

\* Every route of the latest revision and /protected, any header; the server
\* has been up for no time or for an hour, and each awaited call settles in
\* the end.
InitAll ==
  /\ users = SeedUsers
  /\ quoteDocs = <<>>
  /\ now \in {0, ExpiresIn}
  /\ oid = 3
  /\ issued = {jwtSign(1, JWT_SECRET, 0)}
  /\ reqs = <<>>

AllTargets == {[defined |-> TRUE, category |-> "fun", text |-> "Q1"], NoQuote}

Step(i) ==
  \/ SignupFindOne(i)
  \/ SignupSave(i)
  \/ LoginFindOne(i)
  \/ PostQuotesUpdate(i)
  \/ PostQuotesUpsert(i)
  \/ GetQuotesFind(i)
  \/ DeleteQuotesUpdate(i)
  \/ AiQuoteCreate(i)

NextAll ==
  \/ ArriveSignup(MaxLiveReqs, {"a@x.com", "c@x.com"}, {"p1"})
  \/ ArriveLogin(MaxLiveReqs, {"a@x.com"}, Passwords)
  \/ ArrivePostQuotes(MaxLiveReqs, AllHeaders, {1}, {<<[category |-> "fun", text |-> "Q1"]>>})
  \/ ArriveGetQuotes(MaxLiveReqs, AllHeaders)
  \/ ArriveDeleteQuotes(MaxLiveReqs, AllHeaders, {1}, AllTargets)
  \/ ArriveAiQuote(MaxLiveReqs, AllHeaders)
  \/ ArriveProtected(MaxLiveReqs, AllHeaders \cup {RawHeader(tk) : tk \in issued})
  \/ \E i \in 1..Len(reqs) : Step(i)

LiveSpec ==
  /\ InitAll
  /\ [][NextAll]_vars
  /\ \A i \in 1..MaxLiveReqs : WF_vars(i <= Len(reqs) /\ Step(i))

----------------------------------------------------------------------------
(* The claims *)

\* Request i is answered in this step.
Answered(i) ==
  /\ i \in 1..Len(reqs')
  /\ reqs'[i].pc = "done"
  /\ (i <= Len(reqs) => reqs[i].pc # "done")

\* The awaited calls of request i all resolved (none rejected).
NoFault(r) == r.err \in {"none", "E11000"}

C1_OneUserPerEmail == \A u, v \in users : u.email = v.email => u = v

C1_HeldEmailRefused ==
  \A i \in 1..Len(reqs) :
    (/\ reqs[i].route = "signup"
     /\ Answered(i)
     /\ \E u \in users : u.email = reqs[i].body.email)
    => /\ users' = users
       /\ issued' = issued
       /\ NoFault(reqs'[i]) =>
            /\ reqs'[i].status = 400
            /\ reqs'[i].res = Msg("Email already in use")

\* C1: after any interleaving of POST /signup requests, two of them with the
\* same email and both past their existence check included, at most one User
\* holds a given email, and a signup whose email a stored User holds creates
\* no User and is answered 400 'Email already in use' (500 when the awaited
\* call itself rejected).
C1_SignupUnique == []C1_OneUserPerEmail /\ [][C1_HeldEmailRefused]_vars

\* Two signups with one email were both past the existence check; one was
\* saved and the other met the unique index.
C1_Witness ==
  \E i, j \in 1..Len(reqs) :
    /\ reqs[i].route = "signup" /\ reqs[j].route = "signup"
    /\ reqs[i].body.email = reqs[j].body.email
    /\ reqs[i].status = 201
    /\ reqs[j].status = 400 /\ reqs[j].err = "E11000"

C5_LoginAnswers ==
  \A i \in 1..Len(reqs) :
    LET r == reqs[i]
        a == authenticateToken(Bearer(r.res.token), now)
    IN (r.route = "login" /\ r.pc = "done") =>
         /\ r.status = 200 =>
              \E u \in users :
                /\ u.email = r.body.email
                /\ \E salt \in Salts :
                     u.password = bcryptHash(r.body.password, SaltRounds, salt)
                /\ r.res.userId = u.id
                /\ r.res.token \in issued
                /\ a.status = 0
                /\ \A v \in users : v.id = a.userId <=> v = u
         /\ r.status # 200 => r.res.token = NoToken

C5_LoginDecides ==
  \A i \in 1..Len(reqs) :
    (reqs[i].route = "login" /\ Answered(i) /\ NoFault(reqs'[i])) =>
      \A u \in users :
        u.email = reqs[i].body.email =>
          IF \E salt \in Salts :
               u.password = bcryptHash(reqs[i].body.password, SaltRounds, salt)
            THEN reqs'[i].status = 200
            ELSE reqs'[i].status = 401 /\ issued' = issued

\* C5: POST /login for a stored user with the password that user was created
\* with is answered 200 with a token that authenticateToken accepts and that
\* sets req.userId to that user's identifier and no other user's; with another
\* password it is answered 401 and no token is issued.
C5_Login == []C5_LoginAnswers /\ [][C5_LoginDecides]_vars

\* One login with the right password was answered 200, one with a wrong
\* password 401.
C5_Witness ==
  \E i, j \in 1..Len(reqs) :
    /\ reqs[i].route = "login" /\ reqs[i].status = 200
    /\ reqs[j].route = "login" /\ reqs[j].status = 401
    /\ reqs[j].res.message = "Invalid password"

\* C7: in every reachable state the password field of every stored User holds
\* the hash of the password submitted at creation and never the plaintext,
\* and every request answered 201 created exactly one User.
C7_PasswordHashed ==
  /\ \A u \in users :
       /\ \A p \in Passwords : u.password # Raw(p)
       /\ \E p \in Passwords, salt \in Salts : u.password = bcryptHash(p, SaltRounds, salt)
  /\ \A i \in 1..Len(reqs) :
       (reqs[i].route \in {"signup", "apiusers"} /\ reqs[i].status = 201) =>
         Cardinality({u \in users : u.id = reqs[i].res.userId
                                      /\ u.email = reqs[i].body.email}) = 1

\* C6, first half: each token is issued with the time of its issue.
C6_IssuedNow == \A tk \in issued' \ issued : tk.iat = now

\* C6, second half: in every state, whatever happened since the issue, the
\* middleware accepts a held token before its hour is over and refuses it
\* afterwards; every GET /quotes that presented it was treated so.
C6_ValidForAnHour ==
  /\ \A tk \in issued :
       LET a == authenticateToken(Bearer(tk), now) IN
       /\ now < tk.iat + ExpiresIn => a = AuthOk(tk.userId)
       /\ now > tk.iat + ExpiresIn => a.status = 403
  /\ \A i \in 1..Len(reqs) :
       LET r == reqs[i] IN
       (r.route = "getq" /\ Len(r.hdr) = 2 /\ r.hdr[2] \in issued) =>
         /\ r.at < r.hdr[2].iat + ExpiresIn =>
              r.userId = r.hdr[2].userId /\ r.status \notin {401, 403}
         /\ r.at > r.hdr[2].iat + ExpiresIn =>
              r.status = 403 /\ r.ops = 0

\* C6: a token issued at time t by signup or login is accepted by
\* authenticateToken at every time before t + 1 hour, whatever requests
\* happened in between, and refused at every time after its expiry.
C6_TokenLifetime == []C6_ValidForAnHour /\ [][C6_IssuedNow]_vars

\* One token, issued by a signup, was accepted from one GET /quotes and was
\* refused, its hour over, from a later one.
C6_Witness ==
  \E i, j, k \in 1..Len(reqs) :
    /\ reqs[i].route = "signup" /\ reqs[i].status = 201
    /\ reqs[j].route = "getq" /\ reqs[j].hdr = Bearer(reqs[i].res.token)
    /\ reqs[j].status = 200
    /\ reqs[k].route = "getq" /\ reqs[k].hdr = Bearer(reqs[i].res.token)
    /\ reqs[k].status = 403 /\ reqs[k].at > reqs[i].res.token.exp

\* The entries of a sequence that a DELETE /quotes target matches.
Matches(quotes, target) == SelectSeq(quotes, LAMBDA q : IsTarget(q, target))

\* Some DELETE /quotes request for this user targets this entry.
Targeted(userID, q) ==
  \E j \in 1..Len(reqs) :
    /\ reqs[j].route = "delq" /\ reqs[j].body.userID = userID
    /\ IsTarget(q, reqs[j].body.quoteToDelete)

\* C2: concurrent POST /quotes and DELETE /quotes requests for one user never
\* lose an update: whatever the interleaving, two appends that both upsert
\* included, the user has at most one collection, and GET /quotes returns
\* every entry of an answered append that no remove targeted.
C2_NoLostUpdate ==
  /\ \A u \in UserIds : Cardinality(Matching(u)) <= 1
  /\ \A i \in 1..Len(reqs) :
       LET r == reqs[i] IN
       (r.route = "postq" /\ r.status = 200) =>
         \A n \in 1..Len(r.body.quotes) :
           Targeted(r.body.userID, r.body.quotes[n]) \/
             \E m \in 1..Len(ListQuotes(r.body.userID)) :
               ListQuotes(r.body.userID)[m] = r.body.quotes[n]

C4_DeleteCounts ==
  \A i \in 1..Len(reqs) :
    (reqs[i].route = "delq" /\ reqs[i].pc = "updateOne" /\ Answered(i)
       /\ NoFault(reqs'[i])) =>
      LET u == reqs[i].body.userID
          k == Len(Matches(ListQuotes(u), reqs[i].body.quoteToDelete))
      IN IF k >= 1
           THEN /\ reqs'[i].status = 200
                /\ Len(ListQuotes(u)') = Len(ListQuotes(u)) - k
                /\ Matches(ListQuotes(u)', reqs[i].body.quoteToDelete) = <<>>
           ELSE /\ reqs'[i].status = 404
                /\ reqs'[i].res = Msg("Quote not found")
                /\ quoteDocs' = quoteDocs

\* C4: DELETE /quotes with target (category, text) on a user's collection:
\* when k >= 1 entries match exactly, the collection gets k entries shorter
\* and the answer is 200; when none matches, the collection there or not, the
\* answer is 404 'Quote not found' and the collection is as it was.
C4_Delete == [][C4_DeleteCounts]_vars

\* A collection held one entry twice; one DELETE /quotes took both, was
\* answered 200 and left the collection there and empty.
C4_Witness ==
  \E i, j \in 1..Len(reqs) :
    /\ reqs[i].route = "postq" /\ reqs[i].status = 200
    /\ Len(Matches(reqs[i].body.quotes, reqs[j].body.quoteToDelete)) = 2
    /\ reqs[j].route = "delq" /\ reqs[j].status = 200
    /\ reqs[j].body.userID = reqs[i].body.userID
    /\ ListQuotes(reqs[i].body.userID) = <<>>
    /\ Matching(reqs[i].body.userID) # {}

C10_OthersUntouched ==
  \A i \in 1..Len(reqs') :
    (reqs'[i].route \in {"postq", "delq"} /\ (i <= Len(reqs) => reqs'[i] # reqs[i])) =>
      \A B \in UserIds : B # reqs'[i].userId => ListQuotes(B)' = ListQuotes(B)

\* C10: collection operations are bound to the identity of the token: for all
\* users A # B, no POST /quotes or DELETE /quotes request authenticated with
\* A's token, whatever userID its body carries, changes what GET /quotes
\* returns for B's token.
C10_TokenIdentity == [][C10_OthersUntouched]_vars

C3_AppendKeepsOrder ==
  \A i \in 1..Len(reqs) :
    /\ (reqs[i].route = "postq" /\ Answered(i) /\ reqs'[i].status = 200
          /\ reqs[i].body.userID = reqs[i].userId) =>
         ListQuotes(reqs[i].userId)' = ListQuotes(reqs[i].userId) \o reqs[i].body.quotes
    /\ (reqs[i].route = "getq" /\ Answered(i) /\ reqs'[i].status = 200) =>
         reqs'[i].res.quotes = ListQuotes(reqs[i].userId)

\* The first three requests, on collections that start empty: two appends by
\* u and u's listing, one after the other.
C3_TwoAppendsListed ==
  (/\ Len(reqs) >= 3
   /\ reqs[1].route = "postq" /\ reqs[1].status = 200
   /\ reqs[2].route = "postq" /\ reqs[2].status = 200
   /\ reqs[3].route = "getq" /\ reqs[3].status = 200
   /\ reqs[1].body.userID = reqs[1].userId
   /\ reqs[2].body.userID = reqs[1].userId
   /\ reqs[2].userId = reqs[1].userId
   /\ reqs[3].userId = reqs[1].userId) =>
    reqs[3].res.quotes = reqs[1].body.quotes \o reqs[2].body.quotes

\* C3: when user u, authenticated by u's token and with body userID = u, does
\* POST /quotes with Q1 and then POST /quotes with Q2, a following GET /quotes
\* with u's token returns the entries u had before, then Q1, then Q2; no
\* earlier entry is overwritten or dropped.
C3_AppendInOrder == []C3_TwoAppendsListed /\ [][C3_AppendKeepsOrder]_vars

\* u appended Q1, then Q2, then listed, and got Q1 followed by Q2.
C3_Witness ==
  /\ Len(reqs) = 3
  /\ reqs[1].route = "postq" /\ reqs[1].status = 200 /\ Len(reqs[1].body.quotes) = 1
  /\ reqs[2].route = "postq" /\ reqs[2].status = 200 /\ Len(reqs[2].body.quotes) = 2
  /\ reqs[3].route = "getq" /\ reqs[3].status = 200
  /\ reqs[1].userId = 1 /\ reqs[2].userId = 1 /\ reqs[3].userId = 1
  /\ reqs[1].body.userID = 1 /\ reqs[2].body.userID = 1
  /\ reqs[3].res.quotes = reqs[1].body.quotes \o reqs[2].body.quotes
  /\ Len(reqs[3].res.quotes) = 3

\* The token a guarded route's middleware takes from the header: the second
\* part (latest revision), the whole header (/protected, first revision).
Presented(r) ==
  IF r.route = "protected"
    THEN IF Len(r.hdr) = 1 /\ r.hdr[1] # BearerWord THEN r.hdr[1] ELSE NoToken
    ELSE IF Len(r.hdr) >= 2 THEN r.hdr[2] ELSE NoToken

\* The token is signed with the server's secret and its hour is not over.
Verifies(token, t) == token.key = JWT_SECRET /\ t < token.iat + ExpiresIn

\* C8: on every route guarded by authenticateToken (/ai/quote, POST, GET and
\* DELETE /quotes, /protected) the handler body runs only after the token was
\* verified: a request without an Authorization header gets 401, one whose
\* token fails verification gets 403, and neither makes a database or
\* generation call.
C8_VerifiedFirst ==
  \A i \in 1..Len(reqs) :
    LET r == reqs[i] IN
    Guarded(r.route) =>
      /\ r.hdr = NoHeader => r.status = 401 /\ r.ops = 0 /\ r.pc = "done"
      /\ (r.hdr # NoHeader /\ Presented(r) # NoToken /\ ~Verifies(Presented(r), r.at)) =>
           r.status = 403 /\ r.ops = 0 /\ r.pc = "done"
      /\ (r.ops > 0 \/ r.status \notin {0, 401, 403}) =>
           Verifies(Presented(r), r.at) /\ r.userId = Presented(r).userId

\* A DELETE /quotes with a forged token got 403, and a POST /quotes or
\* POST /ai/quote got 401 without a header or 403 with an expired token.
C8_Witness ==
  /\ \E i \in 1..Len(reqs) :
       reqs[i].route = "delq" /\ reqs[i].status = 403 /\ Presented(reqs[i]).key = "attacker"
  /\ \E i \in 1..Len(reqs) :
       /\ reqs[i].route \in {"aiquote", "postq"}
       /\ \/ reqs[i].hdr = NoHeader /\ reqs[i].status = 401
          \/ /\ Presented(reqs[i]).key = JWT_SECRET /\ reqs[i].status = 403
             /\ reqs[i].at >= Presented(reqs[i]).exp

C9_OneAnswer ==
  \A i \in 1..Len(reqs) :
    LET r == reqs[i] IN
    /\ r.sent <= 1
    /\ r.pc = "done" <=> r.sent = 1
    /\ r.sent = 1 <=> r.status # 0
    /\ r.pc \in {"done", "findOne", "save", "updateOne", "upsert", "find", "create"}
    /\ r.status >= 400 => r.res.message # ""
    /\ r.err # "none" =>
         /\ r.pc = "done"
         /\ r.status = IF r.err = "E11000" THEN 400 ELSE 500
         /\ r.err # "E11000" => r.res.error = r.err

C9_AnsweredOnce ==
  \A i \in 1..Len(reqs) : reqs[i].pc = "done" => reqs'[i] = reqs[i]

C9_Answered ==
  \A i \in 1..MaxLiveReqs :
    (i <= Len(reqs)) ~> (i <= Len(reqs) /\ reqs[i].pc = "done" /\ reqs[i].sent = 1)

====
